---- MODULE Spec2Model ----
(***************************************************************************)
(* Model of the honeypot request pipeline: HoneypotOrchestrator and the    *)
(* components it sequences (request parser and validator, threat analyzer, *)
(* threat intelligence, classifier, response generators, monitoring).      *)
(*                                                                         *)
(* Text is modelled as a sequence of tokens; a substring / regex search    *)
(* for a needle is the presence of a token the needle matches.             *)
(***************************************************************************)
EXTENDS Integers, Sequences, FiniteSets, TLC

\* ------------------------------------------------------------------ bounds
\* largest value of the wall clock; time.time() is positive and non-decreasing
MaxClock == 2
\* largest number of faults injected into the collaborators during one run
MaxFaults == 2

\* the process_request invocations that share one orchestrator
Threads == {1, 2}

\* ------------------------------------------------------------- data model
\* Python None for an object-valued local
None == [tag |-> "None"]

\* marker returned by an operator whose code raises
Raised == [tag |-> "Raised"]

HoneypotType ==
    {"admin_panel", "api_endpoint", "file_upload", "bot_trap",
     "ssh_simulation", "vulnerable_webapp"}

ThreatLevel == {"low", "medium", "high", "critical"}

\* ------------------------------------------------------------ text helpers
\* str.lower() on one token
LowerTok(t) ==
    CASE t = "UNION SELECT" -> "union select"
      [] t = "/ADMIN"       -> "/admin"
      [] t = "SQLMap"       -> "sqlmap"
      [] t = "USERS"        -> "users"
      [] OTHER              -> t

Lower(text) == [k \in DOMAIN text |-> LowerTok(text[k])]

\* urllib.parse.unquote on one token: one level of percent-decoding
UnquoteTok(t) ==
    CASE t = "%2e%2e%2f"  -> "../"
      [] t = "%3cscript"  -> "<script"
      [] t = "%252e"      -> "%2e"
      [] OTHER            -> t

Unquote(text) == [k \in DOMAIN text |-> UnquoteTok(text[k])]

\* `needle in text` for a lower-cased needle
Contains(text, needle) == \E k \in DOMAIN text : text[k] = needle

ContainsAny(text, needles) == \E n \in needles : Contains(text, n)

\* ---------------------------------------------------------------- events
\* Raw Lambda events together with the Lambda context they arrive with.
\* query and hdr are the flattened "key=value" / "key: value" pairs other than
\* the user agent; hasCtx = FALSE is a context without aws_request_id.
Ev(method, path, query, hdr, ua, body, ip, hasCtx) ==
    [method |-> method, path |-> path, query |-> query, hdr |-> hdr,
     ua |-> ua, body |-> body, ip |-> ip, hasCtx |-> hasCtx]

Events ==
    { Ev("post",  <<"/ADMIN">>, <<>>, <<>>, <<"mozilla">>, <<"user=a">>, "1.2.3.4", TRUE),
      Ev("GET",   <<"/api/", "users">>, <<"UNION SELECT">>, <<>>, <<"SQLMap">>, <<>>, "1.2.3.4", TRUE),
      Ev("GET",   <<"/", "shell">>, <<>>, <<>>, <<"mozilla">>, <<>>, "1.2.3.4", TRUE),
      Ev("GET",   <<"/about">>, <<>>, <<>>, <<"mozilla">>, <<>>, "1.2.3.4", TRUE),
      Ev("TRACE", <<"/about">>, <<>>, <<>>, <<"mozilla">>, <<>>, "1.2.3.4", TRUE),
      Ev("GET",   <<"/about">>, <<>>, <<>>, <<"mozilla">>, <<>>, "1.2.3.4", FALSE) }

\* ------------------------------------------------- request parser/validator
\* str.upper() on the HTTP method
UpperMethod(m) ==
    CASE m = "get" -> "GET" [] m = "post" -> "POST" [] OTHER -> m

\* tokens that begin with the character '/'
SlashTokens == {"/", "/admin", "/ADMIN", "/api/", "/about", "/etc/passwd"}

StartsWithSlash(text) == text # <<>> /\ text[1] \in SlashTokens

\* RequestParser.parse_lambda_event: the RequestInfo, or Raised when reading
\* context.aws_request_id fails (re-raised as ValueError)
parse_lambda_event(ev) ==
    IF ~ev.hasCtx THEN Raised
    ELSE [client_ip |-> ev.ip, method |-> UpperMethod(ev.method),
          path |-> IF StartsWithSlash(ev.path) THEN ev.path ELSE <<"/">> \o ev.path,
          query_params |-> ev.query, headers |-> ev.hdr \o ev.ua,
          content_type |-> ev.hdr,
          body |-> ev.body, user_agent |-> ev.ua, timestamp |-> "now"]

ValidMethods == {"GET", "POST", "PUT", "DELETE", "HEAD", "OPTIONS", "PATCH"}

\* str.strip() on one entry of a forwarding list
Strip(t) ==
    CASE t = " 5.5.5.5 " -> "5.5.5.5" [] t = " 7.7.7.7" -> "7.7.7.7" [] OTHER -> t

\* variant of _extract_client_ip: x-real-ip is looked up before x-forwarded-for
extract_client_ip_RealIpFirst(ev) ==
    IF "cloudfront-viewer-address" \in DOMAIN ev.headers
      THEN Head(ev.headers["cloudfront-viewer-address"])
    ELSE IF "x-real-ip" \in DOMAIN ev.headers
      THEN ev.headers["x-real-ip"]
    ELSE IF "x-forwarded-for" \in DOMAIN ev.headers
      THEN Strip(Head(ev.headers["x-forwarded-for"]))
    ELSE IF "sourceIp" \in DOMAIN ev.http THEN ev.http["sourceIp"]
    ELSE "Unknown"

\* RequestParser._extract_client_ip. ev.headers is the event's header map as
\* it arrives, ev.http is requestContext.http (empty when there is none); a
\* cloudfront-viewer-address is held as its parts between ':' and an
\* x-forwarded-for as its entries between ','
extract_client_ip(ev) ==
    IF "cloudfront-viewer-address" \in DOMAIN ev.headers
      THEN Head(ev.headers["cloudfront-viewer-address"])
    ELSE IF "x-forwarded-for" \in DOMAIN ev.headers
      THEN Strip(Head(ev.headers["x-forwarded-for"]))
    ELSE IF "x-real-ip" \in DOMAIN ev.headers
      THEN ev.headers["x-real-ip"]
    ELSE IF "sourceIp" \in DOMAIN ev.http THEN ev.http["sourceIp"]
    ELSE "Unknown"

\* variant of validate_request: the method is not compared with the list
validate_request_AnyMethod(ri) ==
    IF ri = None THEN FALSE
    ELSE IF ri.client_ip = "" \/ ri.method = "" \/ ri.path = <<>> \/ ri.timestamp = ""
      THEN FALSE
    ELSE IF ~StartsWithSlash(ri.path) THEN FALSE
    ELSE TRUE

\* RequestValidator.validate_request; reading a field of an object that has
\* none raises AttributeError inside the try block, which returns False
validate_request(ri) ==
    IF ri = None THEN FALSE
    ELSE IF ri.client_ip = "" \/ ri.method = "" \/ ri.path = <<>> \/ ri.timestamp = ""
      THEN FALSE
    ELSE IF ri.method \notin ValidMethods THEN FALSE
    ELSE IF ~StartsWithSlash(ri.path) THEN FALSE
    ELSE TRUE

\* ---------------------------------------------------------- threat analyzer
\* config.THREAT_PATTERNS in dictionary order, one entry per compiled pattern
THREAT_PATTERNS ==
    << [category |-> "sql_injection",       pattern |-> "union\\s+select"],
       [category |-> "sql_injection",       pattern |-> "drop\\s+table"],
       [category |-> "sql_injection",       pattern |-> "insert\\s+into"],
       [category |-> "sql_injection",       pattern |-> "delete\\s+from"],
       [category |-> "xss",                 pattern |-> "<script"],
       [category |-> "xss",                 pattern |-> "javascript:"],
       [category |-> "xss",                 pattern |-> "onerror\\s*="],
       [category |-> "xss",                 pattern |-> "onload\\s*="],
       [category |-> "directory_traversal", pattern |-> "\\.\\./"],
       [category |-> "directory_traversal", pattern |-> "\\.\\.\\\\"],
       [category |-> "directory_traversal", pattern |-> "/etc/passwd"],
       [category |-> "directory_traversal", pattern |-> "/etc/shadow"],
       [category |-> "command_injection",   pattern |-> "cmd\\s*="],
       [category |-> "command_injection",   pattern |-> "exec\\s*\\("],
       [category |-> "command_injection",   pattern |-> "system\\s*\\("],
       [category |-> "command_injection",   pattern |-> "eval\\s*\\("],
       [category |-> "file_inclusion",      pattern |-> "/etc/passwd"],
       [category |-> "file_inclusion",      pattern |-> "php://input"],
       [category |-> "file_inclusion",      pattern |-> "data://"],
       [category |-> "file_inclusion",      pattern |-> "file://"],
       [category |-> "obfuscation",         pattern |-> "base64_decode"],
       [category |-> "obfuscation",         pattern |-> "chr\\s*\\("],
       [category |-> "obfuscation",         pattern |-> "hex\\s*\\("],
       [category |-> "obfuscation",         pattern |-> "%[0-9a-f]{2}"] >>

\* the tokens a compiled pattern finds a match in (re.IGNORECASE)
PatternMatchesTok(pattern, tok) ==
    LET t == LowerTok(tok) IN
    CASE pattern = "union\\s+select" -> t = "union select"
      [] pattern = "<script"         -> t = "<script"
      [] pattern = "\\.\\./"         -> t = "../"
      [] pattern = "/etc/passwd"     -> t = "/etc/passwd"
      [] pattern = "cmd\\s*="        -> t = "cmd="
      [] pattern = "%[0-9a-f]{2}"    -> t \in {"%2e", "%2e%2e%2f", "%3cscript", "%252e"}
      [] OTHER                       -> FALSE

\* pattern.search(text)
Search(pattern, text) == \E k \in DOMAIN text : PatternMatchesTok(pattern, text[k])

\* match.group(0): the first matching piece of the text
Group0(pattern, text) ==
    LET k == CHOOSE j \in DOMAIN text :
                 /\ PatternMatchesTok(pattern, text[j])
                 /\ \A h \in 1..(j - 1) : ~PatternMatchesTok(pattern, text[h])
    IN <<text[k]>>

\* variant of the severity mapping: only the default of the lookup is left
get_severity_for_category_Default(category) == "low"

\* ThreatAnalyzer._get_severity_for_category
get_severity_for_category(category) ==
    CASE category = "sql_injection"       -> "high"
      [] category = "xss"                 -> "high"
      [] category = "command_injection"   -> "critical"
      [] category = "directory_traversal" -> "high"
      [] category = "file_inclusion"      -> "high"
      [] category = "obfuscation"         -> "medium"
      [] category = "security_tool"       -> "medium"
      [] category = "automated_tool"      -> "low"
      [] OTHER                            -> "low"

Indicator(pattern, category, severity, matched, location) ==
    [pattern |-> pattern, category |-> category, severity |-> severity,
     matched_text |-> matched, location |-> location]

\* the loop over all compiled patterns shared by the four surface scans;
\* whole = TRUE records the whole text as matched_text, else match.group(0)
ScanSurface(text, location, whole) ==
    LET hits == SelectSeq(THREAT_PATTERNS, LAMBDA c : Search(c.pattern, text))
    IN [k \in 1..Len(hits) |->
          Indicator(hits[k].pattern, hits[k].category,
                    get_severity_for_category(hits[k].category),
                    IF whole THEN text ELSE Group0(hits[k].pattern, text),
                    location)]

\* ThreatAnalyzer._analyze_path
analyze_path(path) == ScanSurface(Unquote(path), "path", TRUE)

\* ThreatAnalyzer._analyze_query_params
analyze_query_params(query) ==
    IF query = <<>> THEN <<>> ELSE ScanSurface(Unquote(query), "query_params", TRUE)

\* ThreatAnalyzer._analyze_body
analyze_body(body) ==
    IF body = <<>> THEN <<>> ELSE ScanSurface(Unquote(body), "body", FALSE)

\* ThreatAnalyzer._analyze_headers: the header text is not URL-decoded
analyze_headers(headers) == ScanSurface(headers, "headers", FALSE)

\* config.SECURITY_TOOLS
SECURITY_TOOLS ==
    << "sqlmap", "nikto", "nmap", "burp", "metasploit", "nuclei",
       "gobuster", "dirb", "wfuzz", "hydra", "medusa", "john" >>

bot_indicators == << "bot", "crawler", "spider", "scraper", "scanner" >>

\* variant of the user-agent pass: the user agent is not lower-cased
analyze_user_agent_CaseSensitive(ua) ==
    IF ua = <<>> THEN <<>>
    ELSE LET tools == SelectSeq(SECURITY_TOOLS, LAMBDA t : Contains(ua, t))
             bots  == SelectSeq(bot_indicators, LAMBDA t : Contains(ua, t))
         IN [k \in 1..Len(tools) |->
                Indicator(tools[k], "security_tool", "medium", ua, "user_agent")]
            \o
            [k \in 1..Len(bots) |->
                Indicator(bots[k], "automated_tool", "low", ua, "user_agent")]

\* ThreatAnalyzer._analyze_user_agent
analyze_user_agent(ua) ==
    IF ua = <<>> THEN <<>>
    ELSE LET tools == SelectSeq(SECURITY_TOOLS, LAMBDA t : Contains(Lower(ua), t))
             bots  == SelectSeq(bot_indicators, LAMBDA t : Contains(Lower(ua), t))
         IN [k \in 1..Len(tools) |->
                Indicator(tools[k], "security_tool", "medium", ua, "user_agent")]
            \o
            [k \in 1..Len(bots) |->
                Indicator(bots[k], "automated_tool", "low", ua, "user_agent")]

\* ThreatAnalyzer.analyze_request
analyze_request(ri) ==
    analyze_path(ri.path) \o analyze_query_params(ri.query_params)
        \o analyze_body(ri.body) \o analyze_headers(ri.headers)
        \o analyze_user_agent(ri.user_agent)

\* ThreatIntelligence.__init__: the blocklist starts empty and nothing fills it
known_malicious_ips == {}

\* ThreatIntelligence.enrich_threats over a given blocklist
enrich_threats(indicators, ri, blocklist) ==
    IF ri.client_ip \in blocklist
      THEN Append(indicators,
                  Indicator("known_malicious_ip", "ip_reputation", "high",
                            <<ri.client_ip>>, "source_ip"))
      ELSE indicators

\* --------------------------------------------------------------- classifier
\* rules a caller supplies through custom_rules or add_rule: subclasses of
\* HoneypotClassificationRule with a predicate, a persona and a priority
CustomRules == {"CustomHighRule", "CustomTieRule", "CustomLowRule"}

\* the rule classes: matches(), get_honeypot_type() and get_priority()
RuleMatches(rule, ri) ==
    CASE rule = "AdminPanelRule" ->
            ContainsAny(Lower(ri.path),
                {"/admin", "/wp-admin", "/administrator", "/phpmyadmin",
                 "/cpanel", "/webmin", "/panel", "/dashboard", "/control",
                 "/manage", "/backend", "/cms", "/admin.php", "/wp-login.php"})
      [] rule = "ApiEndpointRule" ->
            ContainsAny(Lower(ri.path),
                {"/api/", "/rest/", "/graphql", "/v1/", "/v2/", "/v3/",
                 "api.", ".json", "/users", "/config", "/status"})
      [] rule = "FileUploadRule" ->
            \/ ContainsAny(Lower(ri.path),
                   {"upload", "file", "attachment", "media", "documents"})
            \/ /\ UpperMethod(ri.method) = "POST"
               /\ Contains(Lower(ri.content_type), "multipart/form-data")
      [] rule = "BotTrapRule" ->
            ContainsAny(Lower(ri.user_agent),
                {"bot", "crawler", "spider", "scraper", "scanner",
                 "curl", "wget", "python-requests", "go-http-client"})
      [] rule = "SshSimulationRule" ->
            ContainsAny(Lower(ri.path),
                {"ssh", "terminal", "console", "shell", "putty"})
      [] rule = "VulnerableWebappRule" -> TRUE
      [] rule = "CustomHighRule" -> Contains(Lower(ri.path), "/about")
      [] rule = "CustomTieRule"  -> Contains(Lower(ri.path), "/api/")
      [] rule = "CustomLowRule"  -> TRUE

RuleType(rule) ==
    CASE rule = "AdminPanelRule"       -> "admin_panel"
      [] rule = "ApiEndpointRule"      -> "api_endpoint"
      [] rule = "FileUploadRule"       -> "file_upload"
      [] rule = "BotTrapRule"          -> "bot_trap"
      [] rule = "SshSimulationRule"    -> "ssh_simulation"
      [] rule = "VulnerableWebappRule" -> "vulnerable_webapp"
      [] rule = "CustomHighRule"       -> "bot_trap"
      [] rule = "CustomTieRule"        -> "ssh_simulation"
      [] rule = "CustomLowRule"        -> "file_upload"

\* variant of get_priority: the priorities of the API and upload rules swapped
RulePriority_Swapped(rule) ==
    CASE rule = "AdminPanelRule"       -> 90
      [] rule = "ApiEndpointRule"      -> 85
      [] rule = "FileUploadRule"       -> 80
      [] rule = "BotTrapRule"          -> 70
      [] rule = "SshSimulationRule"    -> 75
      [] rule = "VulnerableWebappRule" -> 10
      [] rule = "CustomHighRule"       -> 95
      [] rule = "CustomTieRule"        -> 80
      [] rule = "CustomLowRule"        -> 5

RulePriority(rule) ==
    CASE rule = "AdminPanelRule"       -> 90
      [] rule = "ApiEndpointRule"      -> 80
      [] rule = "FileUploadRule"       -> 85
      [] rule = "BotTrapRule"          -> 70
      [] rule = "SshSimulationRule"    -> 75
      [] rule = "VulnerableWebappRule" -> 10
      [] rule = "CustomHighRule"       -> 95
      [] rule = "CustomTieRule"        -> 80
      [] rule = "CustomLowRule"        -> 5

\* HoneypotClassifier.__init__: the default rules in registration order
DefaultRules ==
    << "AdminPanelRule", "ApiEndpointRule", "FileUploadRule", "BotTrapRule",
       "SshSimulationRule", "VulnerableWebappRule" >>

\* variant of the sort: a rule goes before the rules of its own priority
InsertByPriority_BeforeEquals(sorted, r) ==
    LET n == Cardinality({k \in DOMAIN sorted :
                             RulePriority(sorted[k]) > RulePriority(r)})
    IN SubSeq(sorted, 1, n) \o <<r>> \o SubSeq(sorted, n + 1, Len(sorted))

\* insert r after every rule of priority >= its own (keeps the sort stable)
InsertByPriority(sorted, r) ==
    LET n == Cardinality({k \in DOMAIN sorted :
                             RulePriority(sorted[k]) >= RulePriority(r)})
    IN SubSeq(sorted, 1, n) \o <<r>> \o SubSeq(sorted, n + 1, Len(sorted))

RECURSIVE SortPrefix(_, _)
SortPrefix(rules, k) ==
    IF k = 0 THEN <<>> ELSE InsertByPriority(SortPrefix(rules, k - 1), rules[k])

\* variant of the sort: the list is left in registration order
SortRules_Unsorted(rules) == rules

\* rules.sort(key=priority, reverse=True): stable, highest priority first
SortRules(rules) == SortPrefix(rules, Len(rules))

\* HoneypotClassifier.__init__: the default rules, then custom_rules, sorted
NewClassifier(custom_rules) == SortRules(DefaultRules \o custom_rules)

\* variant of add_rule: the rule is put at the head and the list is not sorted
add_rule_Front(chain, rule) == <<rule>> \o chain

\* HoneypotClassifier.add_rule: append, then sort again
add_rule(chain, rule) == SortRules(Append(chain, rule))

\* variant of classify_request: the catch-all rule is skipped and the loop has
\* no default after it
classify_request_NoFallback(rules, ri) ==
    LET hit(k) == rules[k] # "VulnerableWebappRule" /\ RuleMatches(rules[k], ri) IN
    IF \E k \in DOMAIN rules : hit(k)
      THEN LET k == CHOOSE j \in DOMAIN rules :
                       hit(j) /\ \A h \in 1..(j - 1) : ~hit(h)
           IN RuleType(rules[k])
      ELSE "none"

\* HoneypotClassifier.classify_request over a rule chain
classify_request(rules, ri) ==
    IF \E k \in DOMAIN rules : RuleMatches(rules[k], ri)
      THEN LET k == CHOOSE j \in DOMAIN rules :
                       /\ RuleMatches(rules[j], ri)
                       /\ \A h \in 1..(j - 1) : ~RuleMatches(rules[h], ri)
           IN RuleType(rules[k])
      ELSE "vulnerable_webapp"

\* ------------------------------------------------------- response generators
\* a response body: the template it is built from and what is interpolated
Body(template, code, message) ==
    [template |-> template, code |-> code, message |-> message]

HoneypotResponse(status_code, headers, body, content_type) ==
    [status_code |-> status_code, headers |-> headers, body |-> body,
     content_type |-> content_type]

NoHeaders == [h \in {} |-> ""]

\* variant of the admin panel generator: the login failure for every method
AdminPanelResponse_Always401(ri) ==
    HoneypotResponse(401,
        ("Set-Cookie" :> "session_id") @@
        ("Cache-Control" :> "no-cache, no-store, must-revalidate"),
        Body("admin_panel_login", 0, "Invalid username or password"),
        "text/html")

\* AdminPanelResponseGenerator.generate_response
AdminPanelResponse(ri) ==
    IF ri.method = "POST"
      THEN HoneypotResponse(401,
               ("Set-Cookie" :> "session_id") @@
               ("Cache-Control" :> "no-cache, no-store, must-revalidate"),
               Body("admin_panel_login", 0, "Invalid username or password"),
               "text/html")
      ELSE HoneypotResponse(200, ("Cache-Control" :> "no-cache"),
               Body("admin_panel_login", 0, ""), "text/html")

\* ApiEndpointResponseGenerator.generate_response
ApiEndpointResponse(ri) ==
    IF Contains(Lower(ri.path), "users")
      THEN HoneypotResponse(200, ("X-API-Version" :> "1.2.3"),
               Body("api_users", 0, ""), "application/json")
    ELSE IF Contains(Lower(ri.path), "config")
      THEN HoneypotResponse(200, ("X-API-Version" :> "1.2.3"),
               Body("api_config", 0, ""), "application/json")
    ELSE HoneypotResponse(404, ("X-API-Version" :> "1.2.3"),
               Body("api_error", 0, "Endpoint not found"), "application/json")

\* FileUploadResponseGenerator.generate_response
FileUploadResponse(ri) ==
    IF ri.method = "POST"
      THEN HoneypotResponse(200, NoHeaders, Body("upload_success", 0, ""),
               "text/html")
      ELSE HoneypotResponse(200, ("Cache-Control" :> "no-cache"),
               Body("file_upload", 0, ""), "text/html")

\* BotTrapResponseGenerator.generate_response
BotTrapResponse(ri) ==
    HoneypotResponse(200,
        ("X-Robots-Tag" :> "noindex, nofollow") @@ ("Cache-Control" :> "no-cache"),
        Body("bot_trap", 0, ""), "text/html")

\* SshSimulationResponseGenerator.generate_response: str.format() meets the
\* unescaped braces of the style sheet in the template and raises KeyError
SshSimulationResponse(ri) == Raised

\* VulnerableWebappResponseGenerator.generate_response
VulnerableWebappResponse(ri) ==
    HoneypotResponse(200, NoHeaders, Body("vulnerable_webapp", 0, ""), "text/html")

\* variant of the delay: the admin panel and upload generators sleep for
\* every method
add_realistic_delay_AnyMethod(honeypot_type, ri) ==
    IF honeypot_type \in {"admin_panel", "file_upload"} THEN 1 ELSE 0

\* the number of _add_realistic_delay calls (one time.sleep each) that
\* generate_response(honeypot_type, ri) makes: one in the login failure and in
\* the upload result, which answer a POST, and none anywhere else
add_realistic_delay(honeypot_type, ri) ==
    IF honeypot_type \in {"admin_panel", "file_upload"} /\ ri.method = "POST"
      THEN 1 ELSE 0

\* ResponseGeneratorFactory.generate_response
generate_response(honeypot_type, ri) ==
    CASE honeypot_type = "admin_panel"       -> AdminPanelResponse(ri)
      [] honeypot_type = "api_endpoint"      -> ApiEndpointResponse(ri)
      [] honeypot_type = "file_upload"       -> FileUploadResponse(ri)
      [] honeypot_type = "bot_trap"          -> BotTrapResponse(ri)
      [] honeypot_type = "ssh_simulation"    -> SshSimulationResponse(ri)
      [] honeypot_type = "vulnerable_webapp" -> VulnerableWebappResponse(ri)
      [] OTHER                               -> Raised

\* HoneypotResponse.to_lambda_response
to_lambda_response(r) ==
    [statusCode |-> r.status_code,
     headers |-> r.headers @@ ("Content-Type" :> r.content_type),
     body |-> r.body]

\* HoneypotOrchestrator._create_error_response
create_error_response(message, status_code) ==
    [statusCode |-> status_code,
     headers |-> ("Content-Type" :> "text/html"),
     body |-> Body("error_page", status_code, message)]

\* variant of the fallback: an error page instead of the welcome page
create_fallback_response_Error ==
    HoneypotResponse(500, NoHeaders, Body("error_page", 500, ""), "text/html")

\* HoneypotOrchestrator._create_fallback_response
create_fallback_response ==
    HoneypotResponse(200, NoHeaders, Body("welcome", 0, ""), "text/html")

\* ----------------------------------------------------------- diagnostics
\* variant of the classifier's details: every match overwrites the result
get_classification_details_LastMatch(rules, ri) ==
    LET hits == SelectSeq(rules, LAMBDA r : RuleMatches(r, ri)) IN
    [final_classification |->
         IF hits = <<>> THEN "None" ELSE RuleType(hits[Len(hits)]),
     matched_rules |->
         [k \in 1..Len(hits) |->
            [rule_name |-> hits[k], honeypot_type |-> RuleType(hits[k]),
             priority |-> RulePriority(hits[k])]],
     total_rules_checked |-> Len(rules)]

\* HoneypotClassifier.get_classification_details
get_classification_details(rules, ri) ==
    LET hits == SelectSeq(rules, LAMBDA r : RuleMatches(r, ri)) IN
    [final_classification |->
         IF hits = <<>> THEN "None" ELSE RuleType(hits[1]),
     matched_rules |->
         [k \in 1..Len(hits) |->
            [rule_name |-> hits[k], honeypot_type |-> RuleType(hits[k]),
             priority |-> RulePriority(hits[k])]],
     total_rules_checked |-> Len(rules)]

\* the place of a severity value among the strings 'critical' < 'high' <
\* 'low' < 'medium' as Python compares them
StrRank(v) ==
    CASE v = "critical" -> 1 [] v = "high" -> 2 [] v = "low" -> 3
      [] v = "medium" -> 4

\* max(indicator.severity.value for ..., default='none'): the values are
\* strings and max compares them as strings
max_severity(indicators) ==
    LET values == { indicators[k].severity : k \in DOMAIN indicators } IN
    IF values = {} THEN "none"
    ELSE CHOOSE v \in values : \A w \in values : StrRank(w) <= StrRank(v)

\* HoneypotOrchestrator.get_classification_details for an event that parses
\* to ri (Raised when the parser raises), with the classifier's chain rules
orchestrator_classification_details(rules, ri) ==
    IF ri = Raised
      THEN [error |-> "Failed to get classification details"]
      ELSE LET threat_indicators == analyze_request(ri) IN
           [request_summary |->
                [method |-> ri.method, path |-> ri.path,
                 client_ip |-> ri.client_ip, user_agent |-> ri.user_agent],
            classification |-> get_classification_details(rules, ri),
            threat_analysis |->
                [total_threats |-> Len(threat_indicators),
                 categories |-> { threat_indicators[k].category :
                                    k \in DOMAIN threat_indicators },
                 max_severity |-> max_severity(threat_indicators)],
            timestamp |-> ri.timestamp]

\* ----------------------------------------------------------------- state
VARIABLES
    clock,              \* time.time()
    start_time,         \* HoneypotOrchestrator._start_time (0 is None)
    pc,                 \* position of each process_request invocation
    event,              \* the event an invocation was called with
    request_info,       \* locals of process_request, per invocation
    threat_indicators,
    honeypot_type,
    response,
    interaction,
    result,             \* what process_request returned
    began,              \* history: the time the invocation itself started
    faults,             \* history: the collaborator calls that raised
    calls,              \* history: the collaborator methods invoked
    detected,           \* history: what analyze_request returned
    gen_arg,            \* history: persona passed to the response generator
    recorded,           \* history: interactions passed to record_interaction
    injected,           \* number of faults injected so far
    req,                \* a RequestInfo handed to the components directly
    rules,              \* HoneypotClassifier.rules
    blocklist,          \* ThreatIntelligence._known_malicious_ips
    added,              \* history: the rule last passed to add_rule
    applied,            \* history: the component methods called with req
    indicators,         \* what analyze_request(req) returned
    enriched,           \* what enrich_threats(indicators, req) returned
    persona,            \* what classify_request(req) returned
    reply,              \* what generate_response(persona, req) returned
    built,              \* lambda_handler's _orchestrator is not None
    slept,              \* history: _add_realistic_delay calls, per invocation
    registered,         \* history: the rules in the order they were registered
    ip_event,           \* an event handed to _extract_client_ip
    ip_found,           \* what _extract_client_ip(ip_event) returned
    candidate,          \* an object handed to validate_request
    verdict,            \* what validate_request(candidate) returned
    details,            \* what HoneypotClassifier.get_classification_details returned
    report              \* what HoneypotOrchestrator.get_classification_details returned

vars == << clock, start_time, pc, event, request_info, threat_indicators,
           honeypot_type, response, interaction, result, began, faults,
           calls, detected, gen_arg, recorded,
           injected, req, rules, blocklist, added, applied, indicators, enriched,
           persona, reply, built, slept, registered, ip_event, ip_found,
           candidate, verdict, details, report >>

\* the state of the components when they are called one by one
unit == << req, rules, blocklist, added, applied, indicators, enriched, persona,
           reply, registered >>

\* the state of the parser and the validator when they are called directly
parser == << ip_event, ip_found, candidate, verdict >>

\* the state of the diagnostic calls
diag == << details, report >>

\* the state of the process_request invocations
pipeline == << clock, start_time, pc, event, request_info, threat_indicators,
               honeypot_type, response, interaction, result, began, faults,
               calls, detected, gen_arg, recorded, injected, built, slept >>

locals == << request_info, threat_indicators, honeypot_type, response,
             interaction >>

\* processing_time_ms = None
NoTime == -1

\* HoneypotOrchestrator.__init__ builds the classifier, which sorts its rules
Rules == SortRules(DefaultRules)

\* no process_request invocation has started
OrchestratorIdle ==
    /\ clock = 1
    /\ start_time = 0
    /\ pc = [i \in Threads |-> "idle"]
    /\ event = [i \in Threads |-> None]
    /\ request_info = [i \in Threads |-> None]
    /\ threat_indicators = [i \in Threads |-> <<>>]
    /\ honeypot_type = [i \in Threads |-> "unset"]
    /\ response = [i \in Threads |-> None]
    /\ interaction = [i \in Threads |-> None]
    /\ result = [i \in Threads |-> None]
    /\ began = [i \in Threads |-> 0]
    /\ faults = [i \in Threads |-> {}]
    /\ calls = [i \in Threads |-> {}]
    /\ detected = [i \in Threads |-> <<>>]
    /\ gen_arg = [i \in Threads |-> "unset"]
    /\ recorded = [i \in Threads |-> <<>>]
    /\ injected = 0
    /\ slept = [i \in Threads |-> 0]

\* the components as HoneypotOrchestrator.__init__ builds them, not yet called
ComponentsIdle ==
    /\ req = None
    /\ rules = Rules
    /\ blocklist = known_malicious_ips
    /\ added = "none"
    /\ applied = {}
    /\ indicators = <<>>
    /\ enriched = <<>>
    /\ persona = "unset"
    /\ reply = None
    /\ registered = DefaultRules

\* the parser and the validator have not been called directly
ParserIdle ==
    /\ ip_event = None
    /\ ip_found = "unset"
    /\ candidate = None
    /\ verdict = "unset"

\* no diagnostic call has been made
DiagIdle ==
    /\ details = None
    /\ report = None

\* lambda_handler has built the orchestrator in an earlier invocation
OrchestratorBuilt == built = TRUE

Init ==
    /\ OrchestratorIdle /\ OrchestratorBuilt
    /\ ComponentsIdle /\ ParserIdle /\ DiagIdle

\* the wall clock advances while an invocation is in progress
Tick ==
    /\ clock < MaxClock
    /\ \E i \in Threads : pc[i] \notin {"idle", "done", "handle_error"}
    /\ clock' = clock + 1
    /\ UNCHANGED << unit, parser, diag, built, slept,
                    start_time, pc, event, locals, result, began, faults,
                    calls, detected, gen_arg, recorded, injected >>

Goto(i, label) == pc' = [pc EXCEPT ![i] = label]

Note(i, called, raisedBy) ==
    /\ calls' = [calls EXCEPT ![i] = @ \cup called]
    /\ faults' = [faults EXCEPT ![i] = @ \cup raisedBy]

B(flag) == IF flag THEN 1 ELSE 0

\* n more faults are injected, within the bound
Inject(n) ==
    /\ injected + n <= MaxFaults
    /\ injected' = injected + n

\* process_request, line 71: the start time goes into the shared instance.
\* Invocations are numbered in their order of arrival.
Begin(i) ==
    /\ pc[i] = "idle"
    /\ \A j \in Threads : j < i => pc[j] # "idle"
    /\ \E e \in Events : event' = [event EXCEPT ![i] = e]
    /\ start_time' = clock
    /\ began' = [began EXCEPT ![i] = clock]
    /\ Goto(i, "parse")
    /\ UNCHANGED << unit, parser, diag, built, slept,
                    clock, locals, result, faults, calls, detected, gen_arg,
                    recorded, injected >>

\* process_request step 1 with _parse_request
ParseRequest(i) ==
    /\ pc[i] = "parse"
    /\ \E fault \in BOOLEAN, logRaises \in BOOLEAN :
         LET r == IF fault THEN Raised ELSE parse_lambda_event(event[i]) IN
         /\ Inject(B(fault) + B(logRaises))
         /\ logRaises => r = Raised
         /\ Note(i, {"parse_lambda_event"} \cup
                    (IF r = Raised THEN {"record_error"} ELSE {}),
                    (IF r = Raised THEN {"parse"} ELSE {}) \cup
                    (IF logRaises THEN {"record_error"} ELSE {}))
         /\ request_info' = [request_info EXCEPT ![i] =
                IF r = Raised THEN None ELSE r]
         /\ result' = [result EXCEPT ![i] =
                IF r = Raised /\ ~logRaises
                  THEN create_error_response("Invalid request format", 400)
                  ELSE @]
         /\ Goto(i, IF r # Raised THEN "validate"
                    ELSE IF logRaises THEN "handle_error" ELSE "done")
    /\ UNCHANGED << unit, parser, diag, built, slept,
                    clock, start_time, event, threat_indicators, honeypot_type,
                    response, interaction, began, detected, gen_arg, recorded >>

\* variant of step 2: the `return` after a failed validation is missing
ValidateRequest_NoReturn(i) ==
    /\ pc[i] = "validate"
    /\ \E fault \in BOOLEAN, logRaises \in BOOLEAN :
         /\ Inject(B(fault) + B(logRaises))
         /\ logRaises => fault
         /\ Note(i, {"validate_request"} \cup
                    (IF fault THEN {"record_error"} ELSE {}),
                    (IF fault THEN {"validate"} ELSE {}) \cup
                    (IF logRaises THEN {"record_error"} ELSE {}))
         /\ Goto(i, IF logRaises THEN "handle_error" ELSE "analyze")
    /\ UNCHANGED << unit, parser, diag, built, slept,
                    clock, start_time, event, locals, result, began, detected,
                    gen_arg, recorded >>

\* process_request step 2 with _validate_request
ValidateRequest(i) ==
    /\ pc[i] = "validate"
    /\ \E fault \in BOOLEAN, logRaises \in BOOLEAN :
         LET valid == ~fault /\ validate_request(request_info[i]) IN
         /\ Inject(B(fault) + B(logRaises))
         /\ logRaises => fault
         /\ Note(i, {"validate_request"} \cup
                    (IF fault THEN {"record_error"} ELSE {}),
                    (IF fault THEN {"validate"} ELSE {}) \cup
                    (IF logRaises THEN {"record_error"} ELSE {}))
         /\ result' = [result EXCEPT ![i] =
                IF ~valid /\ ~logRaises
                  THEN create_error_response("Request validation failed", 400)
                  ELSE @]
         /\ Goto(i, IF valid THEN "analyze"
                    ELSE IF logRaises THEN "handle_error" ELSE "done")
    /\ UNCHANGED << unit, parser, diag, built, slept,
                    clock, start_time, event, locals, began, detected, gen_arg,
                    recorded >>

\* variant of step 3: no try block, a failing stage raises into process_request
AnalyzeThreats_NoTry(i) ==
    /\ pc[i] = "analyze"
    /\ \E detectFault \in BOOLEAN, enrichFault \in BOOLEAN :
         LET ri == request_info[i]
             found == analyze_request(ri)
             failed == detectFault \/ enrichFault
         IN
         /\ Inject(B(detectFault) + B(enrichFault))
         /\ enrichFault => ~detectFault
         /\ Note(i, {"analyze_request"} \cup
                    (IF ~detectFault THEN {"enrich_threats"} ELSE {}),
                    (IF detectFault THEN {"detect"} ELSE {}) \cup
                    (IF enrichFault THEN {"enrich"} ELSE {}))
         /\ detected' = [detected EXCEPT ![i] = IF detectFault THEN @ ELSE found]
         /\ threat_indicators' = [threat_indicators EXCEPT ![i] =
                IF failed THEN @
                ELSE enrich_threats(found, ri, known_malicious_ips)]
         /\ Goto(i, IF failed THEN "handle_error" ELSE "classify")
    /\ UNCHANGED << unit, parser, diag, built, slept,
                    clock, start_time, event, request_info, honeypot_type,
                    response, interaction, result, began, gen_arg, recorded >>

\* variant of step 3: the analyzer keeps its indicator list in the instance, so
\* the indicators of the invocation before are still in it
AnalyzeThreats_Carry(i) ==
    /\ pc[i] = "analyze"
    /\ \E detectFault \in BOOLEAN, enrichFault \in BOOLEAN, logRaises \in BOOLEAN :
         LET ri == request_info[i]
             carried == IF (i - 1) \in Threads THEN detected[i - 1] ELSE <<>>
             found == carried \o analyze_request(ri)
             failed == detectFault \/ enrichFault
         IN
         /\ Inject(B(detectFault) + B(enrichFault) + B(logRaises))
         /\ enrichFault => ~detectFault
         /\ logRaises => failed
         /\ Note(i, {"analyze_request"} \cup
                    (IF ~detectFault THEN {"enrich_threats"} ELSE {}) \cup
                    (IF failed THEN {"record_error"} ELSE {}),
                    (IF detectFault THEN {"detect"} ELSE {}) \cup
                    (IF enrichFault THEN {"enrich"} ELSE {}) \cup
                    (IF logRaises THEN {"record_error"} ELSE {}))
         /\ detected' = [detected EXCEPT ![i] = IF detectFault THEN @ ELSE found]
         /\ threat_indicators' = [threat_indicators EXCEPT ![i] =
                IF logRaises THEN @
                ELSE IF failed THEN <<>>
                ELSE enrich_threats(found, ri, known_malicious_ips)]
         /\ Goto(i, IF logRaises THEN "handle_error" ELSE "classify")
    /\ UNCHANGED << unit, parser, diag, built, slept,
                    clock, start_time, event, request_info, honeypot_type,
                    response, interaction, result, began, gen_arg, recorded >>

\* process_request step 3 with _analyze_threats: detection, then enrichment,
\* inside one try block whose handler returns the empty list
AnalyzeThreats(i) ==
    /\ pc[i] = "analyze"
    /\ \E detectFault \in BOOLEAN, enrichFault \in BOOLEAN, logRaises \in BOOLEAN :
         LET ri == request_info[i]
             found == analyze_request(ri)
             failed == detectFault \/ enrichFault
         IN
         /\ Inject(B(detectFault) + B(enrichFault) + B(logRaises))
         /\ enrichFault => ~detectFault
         /\ logRaises => failed
         /\ Note(i, {"analyze_request"} \cup
                    (IF ~detectFault THEN {"enrich_threats"} ELSE {}) \cup
                    (IF failed THEN {"record_error"} ELSE {}),
                    (IF detectFault THEN {"detect"} ELSE {}) \cup
                    (IF enrichFault THEN {"enrich"} ELSE {}) \cup
                    (IF logRaises THEN {"record_error"} ELSE {}))
         /\ detected' = [detected EXCEPT ![i] = IF detectFault THEN @ ELSE found]
         /\ threat_indicators' = [threat_indicators EXCEPT ![i] =
                IF logRaises THEN @
                ELSE IF failed THEN <<>>
                ELSE enrich_threats(found, ri, known_malicious_ips)]
         /\ Goto(i, IF logRaises THEN "handle_error" ELSE "classify")
    /\ UNCHANGED << unit, parser, diag, built, slept,
                    clock, start_time, event, request_info, honeypot_type,
                    response, interaction, result, began, gen_arg, recorded >>

\* variant of step 4: the handler falls back to the persona of the first rule
ClassifyHoneypot_FirstRule(i) ==
    /\ pc[i] = "classify"
    /\ \E fault \in BOOLEAN, logRaises \in BOOLEAN :
         /\ Inject(B(fault) + B(logRaises))
         /\ logRaises => fault
         /\ Note(i, {"classify_request"} \cup
                    (IF fault THEN {"record_error"} ELSE {}),
                    (IF fault THEN {"classify"} ELSE {}) \cup
                    (IF logRaises THEN {"record_error"} ELSE {}))
         /\ honeypot_type' = [honeypot_type EXCEPT ![i] =
                IF logRaises THEN @
                ELSE IF fault THEN RuleType(Rules[1])
                ELSE classify_request(Rules, request_info[i])]
         /\ Goto(i, IF logRaises THEN "handle_error" ELSE "generate")
    /\ UNCHANGED << unit, parser, diag, built, slept,
                    clock, start_time, event, request_info, threat_indicators,
                    response, interaction, result, began, detected, gen_arg,
                    recorded >>

\* process_request step 4 with _classify_honeypot
ClassifyHoneypot(i) ==
    /\ pc[i] = "classify"
    /\ \E fault \in BOOLEAN, logRaises \in BOOLEAN :
         /\ Inject(B(fault) + B(logRaises))
         /\ logRaises => fault
         /\ Note(i, {"classify_request"} \cup
                    (IF fault THEN {"record_error"} ELSE {}),
                    (IF fault THEN {"classify"} ELSE {}) \cup
                    (IF logRaises THEN {"record_error"} ELSE {}))
         /\ honeypot_type' = [honeypot_type EXCEPT ![i] =
                IF logRaises THEN @
                ELSE IF fault THEN "vulnerable_webapp"
                ELSE classify_request(Rules, request_info[i])]
         /\ Goto(i, IF logRaises THEN "handle_error" ELSE "generate")
    /\ UNCHANGED << unit, parser, diag, built, slept,
                    clock, start_time, event, request_info, threat_indicators,
                    response, interaction, result, began, detected, gen_arg,
                    recorded >>

\* variant of step 5: no try block, a failing generator raises into
\* process_request
GenerateResponse_NoTry(i) ==
    /\ pc[i] = "generate"
    /\ gen_arg' = [gen_arg EXCEPT ![i] = honeypot_type[i]]
    /\ \E fault \in BOOLEAN :
         LET r == IF fault THEN Raised
                  ELSE generate_response(honeypot_type[i], request_info[i]) IN
         /\ Inject(B(fault))
         /\ slept' = [slept EXCEPT ![i] = @ +
                IF fault THEN 0
                ELSE add_realistic_delay(honeypot_type[i], request_info[i])]
         /\ Note(i, {"generate_response"},
                    IF r = Raised THEN {"generate"} ELSE {})
         /\ response' = [response EXCEPT ![i] = IF r = Raised THEN @ ELSE r]
         /\ Goto(i, IF r = Raised THEN "handle_error" ELSE "record")
    /\ UNCHANGED << unit, parser, diag, built,
                    clock, start_time, event, request_info, threat_indicators,
                    honeypot_type, interaction, result, began, detected, recorded >>

\* process_request step 5 with _generate_response; a generator that is made to
\* raise does so in place of its call and does not sleep
GenerateResponse(i) ==
    /\ pc[i] = "generate"
    /\ gen_arg' = [gen_arg EXCEPT ![i] = honeypot_type[i]]
    /\ \E fault \in BOOLEAN, logRaises \in BOOLEAN :
         LET r == IF fault THEN Raised
                  ELSE generate_response(honeypot_type[i], request_info[i]) IN
         /\ Inject(B(fault) + B(logRaises))
         /\ logRaises => r = Raised
         /\ slept' = [slept EXCEPT ![i] = @ +
                IF fault THEN 0
                ELSE add_realistic_delay(honeypot_type[i], request_info[i])]
         /\ Note(i, {"generate_response"} \cup
                    (IF r = Raised THEN {"record_error"} ELSE {}),
                    (IF r = Raised THEN {"generate"} ELSE {}) \cup
                    (IF logRaises THEN {"record_error"} ELSE {}))
         /\ response' = [response EXCEPT ![i] =
                IF logRaises THEN @
                ELSE IF r = Raised THEN create_fallback_response
                ELSE r]
         /\ Goto(i, IF logRaises THEN "handle_error" ELSE "record")
    /\ UNCHANGED << unit, parser, diag, built,
                    clock, start_time, event, request_info, threat_indicators,
                    honeypot_type, interaction, result, began, detected, recorded >>

\* what MonitoringManager.record_interaction may do
SinkOutcomes == {"ok", "failed", "raised"}

\* HoneypotOrchestrator._create_interaction_record: the elapsed time is taken
\* from the start time held by the shared instance
create_interaction_record(i) ==
    [request_info |-> request_info[i],
     honeypot_type |-> honeypot_type[i],
     threat_indicators |-> threat_indicators[i],
     processing_time_ms |->
         IF start_time # 0 THEN (clock - start_time) * 1000 ELSE NoTime]

\* variant of steps 6 to 8: an exception of the sink is not caught
RecordInteraction_NoTry(i) ==
    /\ pc[i] = "record"
    /\ LET made == create_interaction_record(i) IN
       /\ interaction' = [interaction EXCEPT ![i] = made]
       /\ recorded' = [recorded EXCEPT ![i] = Append(@, made)]
       /\ \E outcome \in SinkOutcomes, perfRaises \in BOOLEAN :
            LET timed == outcome # "raised" /\ made.processing_time_ms > 0
                escapes == outcome = "raised" \/ perfRaises
            IN
            /\ Inject(B(outcome # "ok") + B(perfRaises))
            /\ perfRaises => timed
            /\ Note(i, {"record_interaction"} \cup
                       (IF timed THEN {"record_performance_metric"} ELSE {}),
                       (IF outcome = "raised" THEN {"record_interaction"} ELSE {}) \cup
                       (IF outcome = "failed" THEN {"sink_failed"} ELSE {}) \cup
                       (IF perfRaises THEN {"record_performance_metric"} ELSE {}))
            /\ result' = [result EXCEPT ![i] =
                   IF escapes THEN @ ELSE to_lambda_response(response[i])]
            /\ Goto(i, IF escapes THEN "handle_error" ELSE "done")
    /\ UNCHANGED << unit, parser, diag, built, slept,
                    clock, start_time, event, request_info, threat_indicators,
                    honeypot_type, response, began, detected, gen_arg >>

\* process_request steps 6 to 8 with _create_interaction_record and
\* _record_interaction: every exception of the sink is caught, then the
\* response of step 5 is returned
RecordInteraction(i) ==
    /\ pc[i] = "record"
    /\ LET made == create_interaction_record(i) IN
       /\ interaction' = [interaction EXCEPT ![i] = made]
       /\ recorded' = [recorded EXCEPT ![i] = Append(@, made)]
       /\ \E outcome \in SinkOutcomes, perfRaises \in BOOLEAN :
            LET timed == outcome # "raised" /\ made.processing_time_ms > 0 IN
            /\ Inject(B(outcome # "ok") + B(perfRaises))
            /\ perfRaises => timed
            /\ Note(i, {"record_interaction"} \cup
                       (IF timed THEN {"record_performance_metric"} ELSE {}),
                       (IF outcome = "raised" THEN {"record_interaction"} ELSE {}) \cup
                       (IF outcome = "failed" THEN {"sink_failed"} ELSE {}) \cup
                       (IF perfRaises THEN {"record_performance_metric"} ELSE {}))
    /\ result' = [result EXCEPT ![i] = to_lambda_response(response[i])]
    /\ Goto(i, "done")
    /\ UNCHANGED << unit, parser, diag, built, slept,
                    clock, start_time, event, request_info, threat_indicators,
                    honeypot_type, response, began, detected, gen_arg >>

\* variant of _handle_error: a failing record_error is not caught
HandleError_NoTry(i) ==
    /\ pc[i] = "handle_error"
    /\ \E logRaises \in BOOLEAN :
         /\ Inject(B(logRaises))
         /\ Note(i, {"record_error"},
                    IF logRaises THEN {"handle_error_log"} ELSE {})
         /\ result' = [result EXCEPT ![i] =
                IF logRaises THEN @
                ELSE create_error_response("Internal server error", 500)]
         /\ Goto(i, IF logRaises THEN "raised" ELSE "done")
    /\ UNCHANGED << unit, parser, diag, built, slept,
                    clock, start_time, event, locals, began, detected, gen_arg,
                    recorded >>

\* process_request's except clause with _handle_error
HandleError(i) ==
    /\ pc[i] = "handle_error"
    /\ \E logRaises \in BOOLEAN :
         /\ Inject(B(logRaises))
         /\ Note(i, {"record_error"},
                    IF logRaises THEN {"handle_error_log"} ELSE {})
    /\ result' = [result EXCEPT ![i] =
           create_error_response("Internal server error", 500)]
    /\ Goto(i, "done")
    /\ UNCHANGED << unit, parser, diag, built, slept,
                    clock, start_time, event, locals, began, detected, gen_arg,
                    recorded >>

Next ==
    \/ Tick
    \/ \E i \in Threads :
         \/ Begin(i)
         \/ ParseRequest(i)
         \/ ValidateRequest(i)
         \/ AnalyzeThreats(i)
         \/ ClassifyHoneypot(i)
         \/ GenerateResponse(i)
         \/ RecordInteraction(i)
         \/ HandleError(i)

Spec == Init /\ [][Next]_vars

\* process_request called again only after the call before it has returned:
\* the requests of one Lambda container, served one after another
BeginAlone(i) ==
    /\ \A j \in Threads \ {i} : pc[j] \in {"idle", "done"}
    /\ Begin(i)

OneByOne ==
    \/ Tick
    \/ \E i \in Threads :
         \/ BeginAlone(i)
         \/ ParseRequest(i)
         \/ ValidateRequest(i)
         \/ AnalyzeThreats(i)
         \/ ClassifyHoneypot(i)
         \/ GenerateResponse(i)
         \/ RecordInteraction(i)
         \/ HandleError(i)

SeqSpec == Init /\ [][OneByOne]_vars

\* ------------------------------------------- the components called one by one
\* most rules a caller adds to one classifier
MaxCustom == 2

\* a RequestInfo as the parser builds it
Req(method, path, query, hdr, ua, body, ip) ==
    parse_lambda_event(Ev(method, path, query, hdr, ua, body, ip, TRUE))

\* requests that differ in what the classifier and the generators read
RoutedRequests ==
    { Req(m, p, <<>>, h, ua, <<>>, "1.2.3.4") :
        m \in {"GET", "POST", "TRACE"},
        p \in { <<"/about">>, <<"/ADMIN">>, <<"/admin", "upload">>,
                 <<"/api/", "users">>, <<"/api/", "USERS">>,
                 <<"/api/", "config">>, <<"/api/", "status">>,
                 <<"/api/", "upload">>, <<"/api/", "shell">>, <<"/", "shell">> },
        h \in { <<>>, <<"multipart/form-data">> },
        ua \in { <<"mozilla">>, <<"curl">> } }

\* texts with and without signatures, percent-encoded or not
Payloads ==
    { <<"UNION SELECT">>, <<"%3cscript">>, <<"<script">>, <<"%2e%2e%2f">>,
      <<"../">>, <<"cmd=">>, <<"/etc/passwd">>, <<"%252e">>, <<"user=a">> }

\* requests that carry one payload on one surface
ProbeRequests ==
    { Req("GET", <<"/about">> \o t, <<>>, <<>>, <<"mozilla">>, <<>>, "1.2.3.4") :
        t \in Payloads }
    \cup { Req("GET", <<"/about">>, t, <<>>, <<"mozilla">>, <<>>, "1.2.3.4") :
        t \in Payloads }
    \cup { Req("POST", <<"/about">>, <<>>, <<>>, <<"mozilla">>, t, "1.2.3.4") :
        t \in Payloads }
    \cup { Req("GET", <<"/about">>, <<>>, t, <<"mozilla">>, <<>>, "1.2.3.4") :
        t \in Payloads }
    \cup { Req("GET", <<"/about">>, <<>>, <<>>, t, <<>>, "1.2.3.4") :
        t \in Payloads }

\* requests that differ in user agent and client address
AgentRequests ==
    { Req("GET", <<"/api/", "users">>, q, <<>>, ua, <<>>, ip) :
        q \in { <<>>, <<"UNION SELECT">> },
        ua \in { <<>>, <<"mozilla">>, <<"SQLMap">>, <<"nikto", "scanner">>,
                  <<"bot", "crawler">> },
        ip \in { "1.2.3.4", "6.6.6.6" } }

\* the requests the validator accepts
Requests ==
    { r \in RoutedRequests \cup ProbeRequests \cup AgentRequests :
        validate_request(r) }

\* addresses a blocklist may hold
BadAddresses == {"6.6.6.6"}

\* the components are built (the classifier with or without custom rules, the
\* blocklist loaded or not) and a request is at hand
ComponentsReady ==
    /\ req \in Requests
    /\ \E custom \in {<<>>} \cup { <<c>> : c \in CustomRules } :
          /\ rules = NewClassifier(custom)
          /\ registered = DefaultRules \o custom
    /\ blocklist \in SUBSET BadAddresses
    /\ added = "none"
    /\ applied = {}
    /\ indicators = <<>>
    /\ enriched = <<>>
    /\ persona = "unset"
    /\ reply = None

\* ThreatAnalyzer.analyze_request(req)
Analyze ==
    /\ "analyze_request" \notin applied
    /\ indicators' = analyze_request(req)
    /\ applied' = applied \cup {"analyze_request"}
    /\ UNCHANGED << pipeline, parser, diag, registered,
                    req, rules, blocklist, added, enriched, persona,
                    reply >>

\* variant of enrich_threats: no copy, the indicator is appended to the list
\* that was passed in
Enrich_InPlace ==
    /\ "analyze_request" \in applied
    /\ "enrich_threats" \notin applied
    /\ enriched' = enrich_threats(indicators, req, blocklist)
    /\ indicators' = enriched'
    /\ applied' = applied \cup {"enrich_threats"}
    /\ UNCHANGED << pipeline, parser, diag, registered,
                    req, rules, blocklist, added, persona, reply >>

\* ThreatIntelligence.enrich_threats(indicators, req): works on a copy
Enrich ==
    /\ "analyze_request" \in applied
    /\ "enrich_threats" \notin applied
    /\ enriched' = enrich_threats(indicators, req, blocklist)
    /\ applied' = applied \cup {"enrich_threats"}
    /\ UNCHANGED << pipeline, parser, diag, registered,
                    req, rules, blocklist, added, indicators, persona,
                    reply >>

\* HoneypotClassifier.classify_request(req)
Classify ==
    /\ "classify_request" \notin applied
    /\ persona' = classify_request(rules, req)
    /\ applied' = applied \cup {"classify_request"}
    /\ UNCHANGED << pipeline, parser, diag, registered,
                    req, rules, blocklist, added, indicators,
                    enriched, reply >>

\* ResponseGeneratorFactory.generate_response(persona, req)
Generate ==
    /\ "classify_request" \in applied
    /\ "generate_response" \notin applied
    /\ reply' = generate_response(persona, req)
    /\ applied' = applied \cup {"generate_response"}
    /\ UNCHANGED << pipeline, parser, diag, registered,
                    req, rules, blocklist, added, indicators,
                    enriched, persona >>

\* HoneypotClassifier.add_rule(rule); the request is then classified afresh
AddRule(rule) ==
    /\ Len(rules) < Len(DefaultRules) + MaxCustom
    /\ rules' = add_rule(rules, rule)
    /\ added' = rule
    /\ registered' = Append(registered, rule)
    /\ applied' = applied \ {"classify_request", "generate_response"}
    /\ persona' = "unset"
    /\ reply' = None
    /\ UNCHANGED << pipeline, parser, diag,
                    req, blocklist, indicators, enriched >>

UnitInit ==
    /\ OrchestratorIdle /\ OrchestratorBuilt
    /\ ComponentsReady /\ ParserIdle /\ DiagIdle

UnitNext ==
    \/ Analyze
    \/ Enrich
    \/ Classify
    \/ Generate
    \/ \E rule \in CustomRules : AddRule(rule)

UnitSpec == UnitInit /\ [][UnitNext]_vars

\* ------------------------------------------------------------ properties
Done(i) == pc[i] = "done"

\* the validator was reached and returned True
Validated(i) ==
    /\ "validate_request" \in calls[i]
    /\ "validate" \notin faults[i]
    /\ validate_request(request_info[i])

\* no record_error call of the stage handlers raised in invocation i
ReportingWorked(i) == "record_error" \notin faults[i]

PipelineFaults == {"parse", "validate", "detect", "enrich", "classify", "generate"}

LaterStages ==
    {"analyze_request", "enrich_threats", "classify_request",
     "generate_response", "record_interaction", "record_performance_metric"}

WellFormed(r) ==
    /\ DOMAIN r = {"statusCode", "headers", "body"}
    /\ r.statusCode \in {200, 400, 401, 404, 500}
    /\ "Content-Type" \in DOMAIN r.headers

\* C1: process_request never lets an exception escape: no invocation ends by
\* raising, and every finished invocation has returned a response with
\* statusCode, headers and body, whatever the collaborators did.
C1_NeverPropagates ==
    \A i \in Threads :
        /\ pc[i] # "raised"
        /\ Done(i) => WellFormed(result[i])
        /\ ~Done(i) => result[i] = None

\* an invocation returned 500 after the error report of a stage handler and
\* the error report of _handle_error both raised
C1_Witness ==
    \E i \in Threads :
        /\ Done(i)
        /\ {"record_error", "handle_error_log"} \subseteq faults[i]
        /\ result[i].statusCode = 500

\* C2: a request that passed parsing and validation has its Interaction handed
\* to record_interaction exactly once by the time process_request returns,
\* whichever of detection, enrichment, classification and synthesis raised
\* (their faults being reported without a further failure), and never more
\* than once at any time.
C2_RecordedExactlyOnce ==
    \A i \in Threads :
        /\ Len(recorded[i]) <= 1
        /\ (Done(i) /\ Validated(i) /\ ReportingWorked(i))
              => Len(recorded[i]) = 1

\* a validated request with two failed stages was recorded once
C2_Witness ==
    \E i \in Threads :
        /\ Done(i) /\ Validated(i)
        /\ Cardinality(faults[i] \cap {"detect", "enrich", "classify", "generate"}) = 2
        /\ Len(recorded[i]) = 1

\* the validator returned False for the parsed request
ValidationRefused(i) ==
    /\ "validate_request" \in calls[i]
    /\ "validate" \notin faults[i]
    /\ ~validate_request(request_info[i])

\* C3: when parsing raises (and the fault is reported) or validation returns
\* False, the response has status 400 and none of threat analysis, enrichment,
\* classification, response generation and record_interaction is invoked.
C3_RejectedStops ==
    \A i \in Threads :
        (Done(i) /\ (("parse" \in faults[i] /\ ReportingWorked(i))
                        \/ ValidationRefused(i)))
            => /\ result[i].statusCode = 400
               /\ calls[i] \cap LaterStages = {}
               /\ recorded[i] = <<>>

\* one invocation was rejected by the parser and another by the validator
C3_Witness ==
    \E i, j \in Threads :
        /\ Done(i) /\ "parse" \in faults[i] /\ result[i].statusCode = 400
        /\ Done(j) /\ ValidationRefused(j) /\ result[j].statusCode = 400

\* C4 (as claimed): when enrichment raises after detection succeeded, the
\* Interaction carries exactly the indicators detection produced.
C4_EnrichFaultKeepsIndicators ==
    \A i \in Threads :
        (Done(i) /\ "enrich" \in faults[i] /\ ReportingWorked(i))
            => /\ Len(recorded[i]) = 1
               /\ recorded[i][1].threat_indicators = detected[i]

\* the same comparison between invocations i and j: same event, same faults in
\* the pipeline stages except those in `except`
SameRunBut(i, j, except) ==
    /\ Done(i) /\ Done(j)
    /\ event[i] = event[j]
    /\ (faults[i] \cap PipelineFaults) \ except = (faults[j] \cap PipelineFaults) \ except
    /\ ReportingWorked(i) /\ ReportingWorked(j)

\* C5: when detection raises, the request has zero indicators, classification
\* and synthesis still run, and the status and persona are those of the run of
\* the same request in which detection did not fail.
C5_DetectionFaultIsolated ==
    \A i \in Threads :
        (Done(i) /\ "detect" \in faults[i] /\ ReportingWorked(i))
            => /\ {"classify_request", "generate_response"} \subseteq calls[i]
               /\ Len(recorded[i]) = 1
               /\ recorded[i][1].threat_indicators = <<>>
               /\ \A j \in Threads :
                    (SameRunBut(i, j, {"detect"}) /\ faults[j] \cap {"detect", "enrich"} = {})
                        => /\ result[j].statusCode = result[i].statusCode
                           /\ recorded[j][1].honeypot_type = recorded[i][1].honeypot_type

\* two runs of one request that has indicators, detection failing in one only
C5_Witness ==
    \E i, j \in Threads :
        /\ "detect" \in faults[i]
        /\ SameRunBut(i, j, {"detect"})
        /\ faults[j] \cap {"detect", "enrich"} = {}
        /\ recorded[j][1].threat_indicators # <<>>
        /\ result[j].statusCode = result[i].statusCode

\* C6: when classification raises, vulnerable_webapp is the persona passed to
\* the response generator and the persona recorded in the Interaction.
C6_ClassifyFaultDefaults ==
    \A i \in Threads :
        (Done(i) /\ "classify" \in faults[i] /\ ReportingWorked(i))
            => /\ gen_arg[i] = "vulnerable_webapp"
               /\ Len(recorded[i]) = 1
               /\ recorded[i][1].honeypot_type = "vulnerable_webapp"
               /\ "generate" \notin faults[i]
                     => result[i].body.template = "vulnerable_webapp"

\* classification failed for a request the rules classify otherwise
C6_Witness ==
    \E i \in Threads :
        /\ Done(i) /\ "classify" \in faults[i] /\ ReportingWorked(i)
        /\ classify_request(Rules, request_info[i]) = "admin_panel"
        /\ recorded[i][1].honeypot_type = "vulnerable_webapp"
        /\ result[i].statusCode = 200

\* C7: when the response generator raises for a validated request, the fixed
\* fallback (status 200, generic body) is returned and the Interaction is
\* recorded with the classified persona and the computed indicators.
C7_GenerateFaultFallsBack ==
    \A i \in Threads :
        (Done(i) /\ "generate" \in faults[i] /\ ReportingWorked(i))
            => /\ result[i].statusCode = 200
               /\ result[i].body = Body("welcome", 0, "")
               /\ result[i].headers = ("Content-Type" :> "text/html")
               /\ Len(recorded[i]) = 1
               /\ recorded[i][1].honeypot_type = gen_arg[i]
               /\ "classify" \notin faults[i]
                     => gen_arg[i] = classify_request(Rules, request_info[i])
               /\ recorded[i][1].threat_indicators = threat_indicators[i]
               /\ faults[i] \cap {"detect", "enrich"} = {}
                     => threat_indicators[i] = analyze_request(request_info[i])

\* the generator failed for a request with indicators classified api_endpoint
C7_Witness ==
    \E i \in Threads :
        /\ Done(i) /\ "generate" \in faults[i]
        /\ result[i].body.template = "welcome"
        /\ recorded[i][1].honeypot_type = "api_endpoint"
        /\ recorded[i][1].threat_indicators # <<>>

\* C8: record_interaction is called only once the response of step 5 exists,
\* and the response returned is that response whatever the sink did: two runs
\* that differ only in the sink's outcome return the same response.
C8_SinkCannotChangeResponse ==
    \A i \in Threads :
        /\ recorded[i] # <<>> =>
              /\ "generate_response" \in calls[i]
              /\ response[i] # None
              /\ Done(i)
              /\ result[i] = to_lambda_response(response[i])
        /\ \A j \in Threads :
              (SameRunBut(i, j, {}) /\ recorded[i] # <<>> /\ recorded[j] # <<>>)
                  => result[i] = result[j]

\* two runs of one request: the sink raised in one and reported failure in the
\* other
C8_Witness ==
    \E i, j \in Threads :
        /\ SameRunBut(i, j, {})
        /\ "record_interaction" \in faults[i]
        /\ "sink_failed" \in faults[j]
        /\ result[i] = result[j]
        /\ result[i].statusCode = 200

\* C9 (as claimed): when detection, classification or synthesis raises and the
\* record_error call of its handler raises too, the later stages still run and
\* the caller never receives a 500 response.
C9_IsolatedWhenReportingFails ==
    \A i \in Threads :
        (Done(i) /\ Validated(i)
           /\ faults[i] \cap {"detect", "classify", "generate"} # {}
           /\ "record_error" \in faults[i])
            => /\ result[i].statusCode # 500
               /\ {"generate_response", "record_interaction"} \subseteq calls[i]

\* C10 (as claimed): the processing_time_ms of each Interaction is the time
\* from the start of its own invocation to the creation of the record.
C10_OwnStartTime ==
    [][\A i \in Threads :
          (pc[i] = "record" /\ pc'[i] = "done")
              => recorded'[i][1].processing_time_ms = (clock - began[i]) * 1000]_vars

\* every fault of invocation i came from the request itself (an event the
\* parser cannot read, a persona whose generator raises), none was injected
NaturalOnly(i) ==
    /\ faults[i] \subseteq {"parse", "generate"}
    /\ "parse" \in faults[i] => parse_lambda_event(event[i]) = Raised
    /\ "generate" \in faults[i]
          => generate_response(gen_arg[i], request_info[i]) = Raised

\* what an orchestrator that has served nothing yet produces for event e
FirstRun(e) ==
    LET ri == parse_lambda_event(e) IN
    IF ri = Raised \/ ~validate_request(ri)
      THEN [served |-> FALSE, status |-> 400, persona |-> "none",
            indicators |-> <<>>]
      ELSE LET type == classify_request(SortRules(DefaultRules), ri)
               r == generate_response(type, ri)
           IN [served |-> TRUE,
               status |-> IF r = Raised THEN 200 ELSE r.status_code,
               persona |-> type,
               indicators |-> enrich_threats(analyze_request(ri), ri, {})]

\* C11: no pipeline state persists across invocations: for requests served one
\* after another by the same orchestrator, the persona, the threat indicators
\* and the response status of each request are those it would get as the
\* first request served.
C11_NothingPersists ==
    \A i \in Threads :
        (Done(i) /\ NaturalOnly(i)) =>
            LET first == FirstRun(event[i]) IN
            /\ result[i].statusCode = first.status
            /\ IF first.served
                  THEN /\ Len(recorded[i]) = 1
                       /\ recorded[i][1].honeypot_type = first.persona
                       /\ recorded[i][1].threat_indicators = first.indicators
                  ELSE recorded[i] = <<>>

\* a request with indicators was served, then a plain request was served
C11_Witness ==
    /\ Done(1) /\ Done(2) /\ NaturalOnly(1) /\ NaturalOnly(2)
    /\ Len(recorded[1]) = 1 /\ Len(recorded[2]) = 1
    /\ recorded[1][1].honeypot_type = "api_endpoint"
    /\ recorded[1][1].threat_indicators # <<>>
    /\ recorded[2][1].honeypot_type = "vulnerable_webapp"
    /\ recorded[2][1].threat_indicators = <<>>
    /\ result[2].statusCode = 200

\* C12: classify_request is total: for every valid request and every rule
\* chain built by the constructor (with or without custom rules) and any
\* sequence of add_rule calls, it returns one member of HoneypotType.
C12_ClassifyTotal ==
    "classify_request" \in applied => persona \in HoneypotType

\* a request was classified by a chain built with a custom rule and extended
\* by add_rule
C12_Witness ==
    /\ "classify_request" \in applied
    /\ added # "none"
    /\ Len(rules) = Len(DefaultRules) + MaxCustom
    /\ persona \in HoneypotType

\* C13: precedence depends only on priority: the persona returned is that of
\* a matching rule that no other matching rule exceeds in priority, whether
\* the rules came from the default list, from custom_rules or from add_rule.
C13_HighestPriorityWins ==
    "classify_request" \in applied =>
        \E w \in DOMAIN rules :
            /\ RuleMatches(rules[w], req)
            /\ persona = RuleType(rules[w])
            /\ \A b \in DOMAIN rules :
                  RuleMatches(rules[b], req)
                      => RulePriority(rules[w]) >= RulePriority(rules[b])

\* a rule registered last by add_rule, of higher priority than the default
\* rule that matches the request, decided the persona
C13_Witness ==
    /\ "classify_request" \in applied
    /\ added = "CustomHighRule"
    /\ RuleMatches("CustomHighRule", req)
    /\ ~RuleMatches("BotTrapRule", req)
    /\ persona = "bot_trap"

\* the chain is in descending order of priority
IsSorted(chain) ==
    \A k \in 1..(Len(chain) - 1) :
        RulePriority(chain[k]) >= RulePriority(chain[k + 1])

\* C14: after every add_rule call the chain is sorted by priority descending,
\* and the call leaves the persona of a request unchanged when the request
\* already matched a rule of strictly higher priority than the added rule.
C14_AddRuleKeepsOrder ==
    [][ rules' # rules =>
          /\ IsSorted(rules')
          /\ (/\ persona # "unset"
              /\ \E k \in DOMAIN rules :
                    /\ RuleMatches(rules[k], req)
                    /\ RulePriority(rules[k]) > RulePriority(added'))
                => classify_request(rules', req) = persona ]_vars

\* a catch-all rule of the lowest priority was added and the request, which
\* matched the admin rule before, was classified again
C14_Witness ==
    /\ added = "CustomLowRule"
    /\ "classify_request" \in applied
    /\ IsSorted(rules)
    /\ rules[Len(rules)] = "CustomLowRule"
    /\ persona = "admin_panel"

\* the order and priorities of the default rules as documented
DocumentedOrder ==
    << [rule |-> "AdminPanelRule",       priority |-> 90],
       [rule |-> "FileUploadRule",       priority |-> 85],
       [rule |-> "ApiEndpointRule",      priority |-> 80],
       [rule |-> "SshSimulationRule",    priority |-> 75],
       [rule |-> "BotTrapRule",          priority |-> 70],
       [rule |-> "VulnerableWebappRule", priority |-> 10] >>

\* C15: with the default rules, classify_request returns the persona of the
\* first rule whose predicate matches in the order AdminPanel (90),
\* FileUpload (85), ApiEndpoint (80), SshSimulation (75), BotTrap (70), and
\* VulnerableWebapp (10) when none of the five matches.
C15_DefaultPrecedence ==
    ("classify_request" \in applied /\ Len(rules) = Len(DefaultRules)) =>
        /\ \A k \in DOMAIN DocumentedOrder :
              RulePriority(DocumentedOrder[k].rule) = DocumentedOrder[k].priority
        /\ \E k \in DOMAIN DocumentedOrder :
              /\ RuleMatches(DocumentedOrder[k].rule, req)
              /\ \A h \in 1..(k - 1) : ~RuleMatches(DocumentedOrder[h].rule, req)
              /\ persona = RuleType(DocumentedOrder[k].rule)

\* a request matching the upload, API and bot predicates got file_upload
C15_Witness ==
    /\ "classify_request" \in applied
    /\ Len(rules) = Len(DefaultRules)
    /\ RuleMatches("FileUploadRule", req)
    /\ RuleMatches("ApiEndpointRule", req)
    /\ RuleMatches("BotTrapRule", req)
    /\ persona = "file_upload"

\* C16: enrich_threats is append-only: its result is the input list, unchanged
\* and in the same order, followed by exactly one ip_reputation/high indicator
\* with location source_ip when the client IP is in the blocklist and by
\* nothing otherwise; the list passed in is still what detection returned.
C16_EnrichAppendOnly ==
    "enrich_threats" \in applied =>
        /\ indicators = analyze_request(req)
        /\ Len(enriched) >= Len(indicators)
        /\ SubSeq(enriched, 1, Len(indicators)) = indicators
        /\ IF req.client_ip \in blocklist
              THEN /\ Len(enriched) = Len(indicators) + 1
                   /\ enriched[Len(enriched)].category = "ip_reputation"
                   /\ enriched[Len(enriched)].severity = "high"
                   /\ enriched[Len(enriched)].location = "source_ip"
              ELSE Len(enriched) = Len(indicators)

\* a request with indicators came from a blocklisted address
C16_Witness ==
    /\ "enrich_threats" \in applied
    /\ req.client_ip \in blocklist
    /\ indicators # <<>>
    /\ Len(enriched) = Len(indicators) + 1

\* the documented severity of each category
SeverityTable(category) ==
    CASE category \in {"sql_injection", "xss", "directory_traversal",
                       "file_inclusion"}              -> "high"
      [] category = "command_injection"               -> "critical"
      [] category \in {"obfuscation", "security_tool"} -> "medium"
      [] category = "automated_tool"                  -> "low"
      [] OTHER                                        -> "undocumented"

\* C17: every indicator returned by analyze_request has the severity the fixed
\* table assigns to its category.
C17_SeverityByCategory ==
    "analyze_request" \in applied =>
        \A k \in DOMAIN indicators :
            indicators[k].severity = SeverityTable(indicators[k].category)

\* one request produced indicators of three different severities
C17_Witness ==
    /\ "analyze_request" \in applied
    /\ {"high", "medium", "low"}
          \subseteq { indicators[k].severity : k \in DOMAIN indicators }

\* the five scanned surfaces, named by their location tags
Surfaces == {"path", "query_params", "body", "headers", "user_agent"}

SurfaceText(r, surface) ==
    CASE surface = "path"         -> r.path
      [] surface = "query_params" -> r.query_params
      [] surface = "body"         -> r.body
      [] surface = "headers"      -> r.headers
      [] surface = "user_agent"   -> r.user_agent

\* C18 (as claimed): for each of the five surfaces and every catalog pattern,
\* if the pattern matches the URL-decoded text of the surface then
\* analyze_request returns an indicator with the pattern's category and the
\* surface's location tag.
C18_EverySurfaceDecodedAndScanned ==
    "analyze_request" \in applied =>
        \A surface \in Surfaces : \A c \in DOMAIN THREAT_PATTERNS :
            Search(THREAT_PATTERNS[c].pattern, Unquote(SurfaceText(req, surface)))
                => \E k \in DOMAIN indicators :
                      /\ indicators[k].category = THREAT_PATTERNS[c].category
                      /\ indicators[k].location = surface

\* the documented tool names and automation keywords
ListedTools ==
    {"sqlmap", "nikto", "nmap", "burp", "metasploit", "nuclei", "gobuster",
     "dirb", "wfuzz", "hydra", "medusa", "john"}

AutomationKeywords == {"bot", "crawler", "spider", "scraper", "scanner"}

\* number of indicators located in the user agent with the given fields
AgentHits(pattern, category, severity) ==
    Cardinality({ k \in DOMAIN indicators :
                    /\ indicators[k].location = "user_agent"
                    /\ indicators[k].pattern = pattern
                    /\ indicators[k].category = category
                    /\ indicators[k].severity = severity })

\* C19: the user-agent pass yields one security_tool/medium indicator located
\* in the user agent for each listed tool name the user agent contains,
\* ignoring case, one automated_tool/low indicator for each listed automation
\* keyword it contains, and nothing else; an empty user agent yields none.
C19_UserAgentPass ==
    "analyze_request" \in applied =>
        LET ua == Lower(req.user_agent)
            held(names) == { n \in names : Contains(ua, n) }
        IN
        /\ \A t \in ListedTools :
              AgentHits(t, "security_tool", "medium")
                  = IF Contains(ua, t) THEN 1 ELSE 0
        /\ \A w \in AutomationKeywords :
              AgentHits(w, "automated_tool", "low")
                  = IF Contains(ua, w) THEN 1 ELSE 0
        /\ Cardinality({ k \in DOMAIN indicators :
                            indicators[k].location = "user_agent" })
              = Cardinality(held(ListedTools)) + Cardinality(held(AutomationKeywords))

\* a tool name written in mixed case was found in the user agent
C19_Witness ==
    /\ "analyze_request" \in applied
    /\ req.user_agent = <<"SQLMap">>
    /\ AgentHits("sqlmap", "security_tool", "medium") = 1

\* C20: for a validated request whose synthesis does not fail, the status is
\* 401 exactly when the persona is admin_panel and the method is POST, 404
\* exactly when the persona is api_endpoint and the path contains neither
\* "users" nor "config" (in any letter case), and 200 in every other case.
C20_StatusByPersona ==
    ("generate_response" \in applied /\ reply # Raised) =>
        LET login == persona = "admin_panel" /\ req.method = "POST"
            missing == /\ persona = "api_endpoint"
                       /\ ~Contains(Lower(req.path), "users")
                       /\ ~Contains(Lower(req.path), "config")
        IN
        /\ reply.status_code = 401 <=> login
        /\ reply.status_code = 404 <=> missing
        /\ (~login /\ ~missing) => reply.status_code = 200

\* an API request for neither users nor config got 404
C20_Witness ==
    /\ "generate_response" \in applied
    /\ reply # Raised
    /\ persona = "api_endpoint"
    /\ Contains(req.path, "status")
    /\ reply.status_code = 404

\* C21: a request classified ssh_simulation, with no fault injected, gets the
\* generator's own response: the generator does not fail, the status is 200
\* and the body is the terminal login banner, not the fallback page.
C21_SshBannerReturned ==
    \A i \in Threads :
        (Done(i) /\ Validated(i) /\ injected = 0
                 /\ gen_arg[i] = "ssh_simulation")
            => /\ "generate" \notin faults[i]
               /\ result[i].statusCode = 200
               /\ result[i].body.template = "ssh_terminal"

\* C22: generate_response sleeps exactly once when the method is POST and the
\* persona handed to the generator is admin_panel or file_upload, and never for
\* another persona or method; whatever fails afterwards, an invocation never
\* sleeps more than once.
C22_DelayOncePerRequest ==
    \A i \in Threads :
        LET delayed == /\ request_info[i] # None
                       /\ request_info[i].method = "POST"
                       /\ gen_arg[i] \in {"admin_panel", "file_upload"} IN
        /\ slept[i] <= 1
        /\ slept[i] = 1 => delayed
        /\ (delayed /\ "generate_response" \in calls[i]
                    /\ "generate" \notin faults[i]) => slept[i] = 1

\* a POST to the admin panel slept once, then record_interaction raised
C22_Witness ==
    \E i \in Threads :
        /\ Done(i) /\ slept[i] = 1 /\ gen_arg[i] = "admin_panel"
        /\ request_info[i].method = "POST"
        /\ "record_interaction" \in faults[i]

\* ------------------------------------------------- the Lambda entry point
\* str(e) of the exceptions that building the configuration or the
\* orchestrator can raise
ExceptionTexts == {"Invalid configuration", "Unable to locate credentials"}

\* form submissions and page loads, beside the events above
FormEvents ==
    { Ev("POST", <<"/", "upload">>, <<>>, <<"multipart/form-data">>, <<"mozilla">>, <<"%3cscript">>, "1.2.3.4", TRUE),
      Ev("GET",  <<"/", "upload">>, <<>>, <<>>, <<"mozilla">>, <<>>, "1.2.3.4", TRUE),
      Ev("GET",  <<"/admin">>, <<>>, <<>>, <<"mozilla">>, <<>>, "1.2.3.4", TRUE) }

\* lambda_handler's answer when the orchestrator cannot be built
init_failure_response(text) ==
    [statusCode |-> 500,
     headers |-> ("Content-Type" :> "text/plain"),
     body |-> Body("Honeypot initialization failed", 500, text)]

\* lambda_handler: the orchestrator is built on the first invocation and kept
\* in the module; a failure to build it is answered at once, and otherwise
\* process_request starts (line 71). A container serves one event at a time.
LambdaHandler(i) ==
    /\ pc[i] = "idle"
    /\ \A j \in Threads : j < i => pc[j] # "idle"
    /\ \A j \in Threads \ {i} : pc[j] \in {"idle", "done"}
    /\ \E e \in Events \cup FormEvents, fails \in BOOLEAN, text \in ExceptionTexts :
         /\ fails => ~built
         /\ event' = [event EXCEPT ![i] = e]
         /\ Inject(B(fails))
         /\ IF fails
              THEN /\ result' = [result EXCEPT ![i] = init_failure_response(text)]
                   /\ Goto(i, "done")
                   /\ UNCHANGED << built, start_time, began >>
              ELSE /\ built' = TRUE
                   /\ start_time' = clock
                   /\ began' = [began EXCEPT ![i] = clock]
                   /\ Goto(i, "parse")
                   /\ UNCHANGED result
    /\ UNCHANGED << unit, parser, diag, slept, clock, locals, faults, calls,
                    detected, gen_arg, recorded >>

\* the container is new: no orchestrator has been built
HandlerInit ==
    /\ OrchestratorIdle /\ built = FALSE
    /\ ComponentsIdle /\ ParserIdle /\ DiagIdle

HandlerNext ==
    \/ Tick
    \/ \E i \in Threads :
         \/ LambdaHandler(i)
         \/ ParseRequest(i)
         \/ ValidateRequest(i)
         \/ AnalyzeThreats(i)
         \/ ClassifyHoneypot(i)
         \/ GenerateResponse(i)
         \/ RecordInteraction(i)
         \/ HandleError(i)

HandlerSpec == HandlerInit /\ [][HandlerNext]_vars

\* C23: no response handed back by lambda_handler carries the text of an
\* exception: whatever failed, the body of the response is a fixed text.
C23_NoFaultTextInResponse ==
    \A i \in Threads :
        Done(i) => result[i].body.message \notin ExceptionTexts

\* ------------------------------------- the parser and the validator directly
\* a map without entries
NoEntry == [k \in {} |-> ""]

\* events that differ in the places a client address can come from
IpEvents ==
    { [headers |-> cf @@ xff @@ xri, http |-> src] :
        cf \in { NoEntry,
                 "cloudfront-viewer-address" :> <<"9.9.9.9", "443">>,
                 "cloudfront-viewer-address" :> <<"9.9.9.9">> },
        xff \in { NoEntry,
                  "x-forwarded-for" :> <<" 5.5.5.5 ", " 7.7.7.7">>,
                  "x-forwarded-for" :> <<"5.5.5.5">> },
        xri \in { NoEntry, "x-real-ip" :> "8.8.8.8" },
        src \in { NoEntry, "sourceIp" :> "1.2.3.4" } }

\* what a caller can hand to validate_request: RequestInfo objects with any
\* of the four fields empty, or an object that is no RequestInfo
Candidates ==
    { None } \cup
    { [client_ip |-> c, method |-> m, path |-> p, query_params |-> <<>>,
       headers |-> <<>>, content_type |-> <<>>, body |-> <<>>,
       user_agent |-> <<"mozilla">>, timestamp |-> t] :
        c \in { "", "1.2.3.4" },
        m \in { "", "GET", "POST", "PUT", "DELETE", "HEAD", "OPTIONS", "PATCH",
                "TRACE", "get" },
        p \in { <<>>, <<"/">>, <<"/admin">>, <<"admin">>, <<"about", "/">> },
        t \in { "", "now" } }

\* RequestParser._extract_client_ip(ip_event)
ExtractClientIp ==
    /\ ip_found = "unset"
    /\ ip_found' = extract_client_ip(ip_event)
    /\ UNCHANGED << pipeline, unit, diag, ip_event, candidate, verdict >>

\* RequestValidator.validate_request(candidate)
Validate ==
    /\ verdict = "unset"
    /\ verdict' = IF validate_request(candidate) THEN "True" ELSE "False"
    /\ UNCHANGED << pipeline, unit, diag, ip_event, ip_found, candidate >>

ParserInit ==
    /\ OrchestratorIdle /\ OrchestratorBuilt
    /\ ComponentsIdle /\ DiagIdle
    /\ ip_event \in IpEvents
    /\ ip_found = "unset"
    /\ candidate \in Candidates
    /\ verdict = "unset"

ParserNext == ExtractClientIp \/ Validate

ParserSpec == ParserInit /\ [][ParserNext]_vars

\* C24: validate_request returns True exactly when client_ip, method, path and
\* timestamp are all non-empty, the method is one of GET, POST, PUT, DELETE,
\* HEAD, OPTIONS, PATCH and the path starts with '/'; for an object it cannot
\* read it returns False and does not raise.
C24_ValidateExactly ==
    verdict # "unset" =>
        /\ verdict \in {"True", "False"}
        /\ verdict = "True" <=>
              /\ candidate # None
              /\ candidate.client_ip # "" /\ candidate.method # ""
              /\ candidate.path # <<>> /\ candidate.timestamp # ""
              /\ candidate.method \in {"GET", "POST", "PUT", "DELETE", "HEAD",
                                       "OPTIONS", "PATCH"}
              /\ candidate.path[1] \in {"/", "/admin"}

\* a complete PATCH request was accepted
C24_Witness ==
    /\ verdict = "True"
    /\ candidate.method = "PATCH" /\ candidate.path = <<"/admin">>

\* C25: the client address is taken from the first source present, in the
\* order cloudfront-viewer-address (the part before ':'), first entry of
\* x-forwarded-for, x-real-ip, requestContext.http.sourceIp, and is 'Unknown'
\* when there is none: a proxy header overrides sourceIp.
C25_ClientIpOrder ==
    ip_found # "unset" =>
        LET h == ip_event.headers
            has(k) == k \in DOMAIN h IN
        /\ has("cloudfront-viewer-address") => ip_found = "9.9.9.9"
        /\ (~has("cloudfront-viewer-address") /\ has("x-forwarded-for"))
              => ip_found = "5.5.5.5"
        /\ (~has("cloudfront-viewer-address") /\ ~has("x-forwarded-for")
               /\ has("x-real-ip")) => ip_found = "8.8.8.8"
        /\ DOMAIN h = {} =>
              ip_found = IF "sourceIp" \in DOMAIN ip_event.http
                           THEN "1.2.3.4" ELSE "Unknown"
        /\ DOMAIN h # {} => ip_found \notin {"1.2.3.4", "Unknown"}

\* x-forwarded-for with two entries and x-real-ip were both present beside
\* sourceIp, and the first forwarded entry was taken
C25_Witness ==
    /\ ip_found = "5.5.5.5"
    /\ ip_event.headers["x-forwarded-for"] = <<" 5.5.5.5 ", " 7.7.7.7">>
    /\ "x-real-ip" \in DOMAIN ip_event.headers
    /\ "sourceIp" \in DOMAIN ip_event.http

\* C26: among the matching rules of highest priority, the one registered
\* first decides the persona, whether the chain was sorted by the constructor
\* or sorted again by add_rule.
C26_EqualPriorityByRegistration ==
    "classify_request" \in applied =>
        LET hits == { k \in DOMAIN registered : RuleMatches(registered[k], req) }
            top == { k \in hits : \A h \in hits :
                        RulePriority(registered[h]) <= RulePriority(registered[k]) }
            first == CHOOSE k \in top : \A h \in top : k <= h
        IN persona = RuleType(registered[first])

\* an API request classified after a custom rule of the API rule's priority was
\* registered and a further add_rule sorted the chain again
C26_Witness ==
    /\ "classify_request" \in applied
    /\ Len(registered) = Len(DefaultRules) + 2
    /\ registered[Len(DefaultRules) + 1] = "CustomTieRule"
    /\ added = "CustomLowRule"
    /\ RuleMatches("CustomTieRule", req) /\ RuleMatches("ApiEndpointRule", req)
    /\ persona = "api_endpoint"

\* C27: every indicator returned by analyze_request or by enrich_threats has a
\* location tag from {path, query, body, headers, user_agent, source_ip}; a
\* match in the query parameters is tagged 'query'.
C27_LocationTags ==
    LET Tags == {"path", "query", "body", "headers", "user_agent", "source_ip"} IN
    /\ \A k \in DOMAIN indicators : indicators[k].location \in Tags
    /\ \A k \in DOMAIN enriched : enriched[k].location \in Tags
    /\ ("analyze_request" \in applied
            /\ \E n \in DOMAIN THREAT_PATTERNS :
                  Search(THREAT_PATTERNS[n].pattern, Unquote(req.query_params)))
          => \E k \in DOMAIN indicators : indicators[k].location = "query"

\* C28: on each of the path, the query parameters and the body, analyze_request
\* returns exactly one indicator for each catalog pattern that matches the
\* decoded text, and the indicator's matched_text is the part of the text the
\* pattern matched, not the whole text.
C28_OneIndicatorPerMatch ==
    "analyze_request" \in applied =>
        LET text == [path |-> Unquote(req.path),
                     query_params |-> Unquote(req.query_params),
                     body |-> Unquote(req.body)] IN
        \A surface \in DOMAIN text, n \in DOMAIN THREAT_PATTERNS :
            LET from == { k \in DOMAIN indicators :
                            /\ indicators[k].location = surface
                            /\ indicators[k].category = THREAT_PATTERNS[n].category
                            /\ indicators[k].pattern = THREAT_PATTERNS[n].pattern } IN
            IF Search(THREAT_PATTERNS[n].pattern, text[surface])
              THEN /\ Cardinality(from) = 1
                   /\ \A k \in from :
                        indicators[k].matched_text =
                            Group0(THREAT_PATTERNS[n].pattern, text[surface])
              ELSE from = {}

\* ------------------------------------------------------ the diagnostic calls
\* HoneypotClassifier.get_classification_details(req)
ClassifierDetails ==
    /\ details' = get_classification_details(rules, req)
    /\ UNCHANGED << pipeline, unit, parser, report >>

\* HoneypotOrchestrator.get_classification_details(event, context), for the
\* event that req was parsed from
OrchestratorDetails ==
    /\ report' = orchestrator_classification_details(rules, req)
    /\ UNCHANGED << pipeline, unit, parser, details >>

DiagInit == UnitInit

DiagNext ==
    \/ ClassifierDetails
    \/ OrchestratorDetails
    \/ \E rule \in CustomRules : AddRule(rule)

DiagSpec == DiagInit /\ [][DiagNext]_vars

\* the place of a severity in the order low < medium < high < critical
SeverityRank(v) ==
    CASE v = "low" -> 0 [] v = "medium" -> 1 [] v = "high" -> 2
      [] v = "critical" -> 3

\* C29: the max_severity of the threat summary is the highest severity among
\* the request's indicators in the order low < medium < high < critical, and
\* 'none' when there are no indicators.
C29_MaxSeverityIsHighest ==
    report # None =>
        LET found == analyze_request(req)
            values == { found[k].severity : k \in DOMAIN found }
            reported == report.threat_analysis.max_severity IN
        IF values = {} THEN reported = "none"
        ELSE /\ reported \in values
             /\ \A v \in values : SeverityRank(v) <= SeverityRank(reported)

\* C30: the details name as final_classification the persona classify_request
\* returns, list every matching rule of the chain, the winner first, and the
\* call leaves the chain as it was: the registered rules in sorted order.
C30_DetailsAgreeWithClassify ==
    (details # None /\ details.total_rules_checked = Len(rules)) =>
        LET listed == details.matched_rules IN
        /\ details.final_classification = classify_request(rules, req)
        /\ { listed[k].rule_name : k \in DOMAIN listed }
              = { rules[k] : k \in { j \in DOMAIN rules : RuleMatches(rules[j], req) } }
        /\ Len(listed) = Cardinality({ j \in DOMAIN rules : RuleMatches(rules[j], req) })
        /\ listed # <<>>
        /\ listed[1].honeypot_type = details.final_classification
        /\ \A k \in DOMAIN listed : listed[k].priority <= listed[1].priority
        /\ rules = SortRules(registered)

\* details asked for an API request after two rules were added: three rules
\* match, and the API rule is listed before the custom rule of its priority
C30_Witness ==
    /\ details # None /\ details.total_rules_checked = Len(DefaultRules) + 2
    /\ Len(rules) = Len(DefaultRules) + 2
    /\ Len(details.matched_rules) >= 3
    /\ details.matched_rules[1].rule_name = "ApiEndpointRule"
    /\ details.matched_rules[2].rule_name = "CustomTieRule"

====
